---- MODULE Spec2Model ----
(***************************************************************************)
(* The Any-driver bridge of the SQLite backend (sqlx-sqlite/src/any.rs):   *)
(* the conversions between the concrete SQLite representations and the     *)
(* erased Any representations, and the two query operations fetch_many and *)
(* fetch_optional that stream the execution worker's items to the caller.  *)
(***************************************************************************)
EXTENDS Integers, Sequences, FiniteSets, TLC

(***************************************************************************)
(* Bounds of the model.                                                    *)
(***************************************************************************)
\* most items the engine produces for one statement batch
MaxPlan == 3
\* largest row_channel_size a connection is configured with
MaxChan == 2
\* longest argument list drawn for the conversion specification
MaxArgs == 2

(***************************************************************************)
(* Fixed-width numbers.                                                    *)
(*   i16: an integer in -2^15 .. 2^15-1, its bit pattern in 0 .. 2^16-1    *)
(*   i32: an integer in -2^31 .. 2^31-1, its bit pattern as two 16-bit     *)
(*        halves <<hi, lo>>                                                *)
(*   i64: four 16-bit limbs <<l3, l2, l1, l0>> (two's complement)          *)
(*   f32: <<s, e, f>>        sign, 8-bit biased exponent, 23-bit fraction  *)
(*   f64: <<s, e, fhi, flo>> sign, 11-bit biased exponent, 52-bit fraction *)
(*        split into its top 23 bits and its low 29 bits                   *)
(***************************************************************************)
I16Bits(v) == IF v < 0 THEN v + 65536 ELSE v

SignExtend16To32(bits) == <<IF bits >= 32768 THEN 65535 ELSE 0, bits>>

ZeroExtend16To32(bits) == <<0, bits>>

I32FromHalves(h) ==
    IF h[1] >= 32768 THEN (h[1] - 65536) * 65536 + h[2]
                     ELSE h[1] * 65536 + h[2]

\* `i as i32` for i: i16
CastI16AsI32(v) == I32FromHalves(SignExtend16To32(I16Bits(v)))

\* index of the most significant set bit of a 23-bit fraction f > 0
Msb(f) == CHOOSE k \in 0..22 : 2^k <= f /\ f < 2^(k+1)

\* the fraction of an f32 NaN with the quiet bit (bit 22) set
Quieted(f) == IF f >= 4194304 THEN f ELSE f + 4194304

\* the NaNs a cast of the f32 NaN with fraction f may produce: the language
\* leaves the sign and the payload to the build. The fraction is the preferred
\* quiet NaN, the input's payload with the quiet bit set (what cvtss2sd
\* yields), or the input's payload unchanged; the sign is either one.
NaNOutcomes(f) ==
    {<<sg, 2047, fr, 0>> : sg \in {0, 1}, fr \in {4194304, Quieted(f), f}}

\* `r as f64` for r: f32, as the set of the results the cast may have. The
\* widening is exact and has one result except for a NaN: an infinity keeps
\* the all-ones exponent, zeros stay zeros, an f32 subnormal becomes a normal
\* f64, a normal number is rebiased and its fraction moves to the top of the
\* 52 bits
CastF32AsF64(x) ==
    IF x[2] = 255 /\ x[3] # 0 THEN NaNOutcomes(x[3])
    ELSE IF x[2] = 255 THEN {<<x[1], 2047, 0, 0>>}
    ELSE IF x[2] = 0 /\ x[3] = 0 THEN {<<x[1], 0, 0, 0>>}
    ELSE IF x[2] = 0
         THEN LET k == Msb(x[3])
              IN  {<<x[1], k - 149 + 1023, (x[3] - 2^k) * 2^(23 - k), 0>>}
         ELSE {<<x[1], x[2] - 127 + 1023, x[3], 0>>}

(***************************************************************************)
(* Erased argument values (AnyValueKind) and concrete argument values      *)
(* (SqliteArgumentValue). A value is [kind, v] with v the payload as a     *)
(* tuple of numbers: <<>> for Null, <<n>> for an i16 or i32, the limbs of  *)
(* an i64, the fields of a float, the bytes of a text or blob. "Future"    *)
(* stands for a kind added to the #[non_exhaustive] enum after this        *)
(* mapping was written.                                                    *)
(***************************************************************************)
SupportedKinds ==
    {"Null", "SmallInt", "Integer", "BigInt", "Real", "Double", "Text", "Blob"}

AnyVal(k, v) == [kind |-> k, v |-> v]

\* the SmallInt arm with the cast taken through u16 (no sign extension)
MapArgSmallIntZeroExt(val) ==
    [kind |-> "Int", v |-> <<I32FromHalves(ZeroExtend16To32(I16Bits(val.v[1])))>>]

\* AnyValueKind::SmallInt(i) => SqliteArgumentValue::Int(i as i32)
MapArgSmallInt(val) == [kind |-> "Int", v |-> <<CastI16AsI32(val.v[1])>>]

\* the match in map_arguments, as the set of the values an arm may yield (one
\* value, except for a Real that is a NaN); "Panic" is the unreachable!() arm
MapArgValue(val) ==
    CASE val.kind = "Null"     -> {[kind |-> "Null", v |-> <<>>]}
      [] val.kind = "SmallInt" -> {MapArgSmallInt(val)}
      [] val.kind = "Integer"  -> {[kind |-> "Int", v |-> val.v]}
      [] val.kind = "BigInt"   -> {[kind |-> "Int64", v |-> val.v]}
      [] val.kind = "Real"     -> {[kind |-> "Double", v |-> d] : d \in CastF32AsF64(val.v)}
      [] val.kind = "Double"   -> {[kind |-> "Double", v |-> val.v]}
      [] val.kind = "Text"     -> {[kind |-> "Text", v |-> val.v]}
      [] val.kind = "Blob"     -> {[kind |-> "Blob", v |-> val.v]}
      [] OTHER                 -> {[kind |-> "Panic", v |-> <<>>]}

\* .into_iter().map(..).collect(): the lists the mapping in order may yield
RECURSIVE MapAll(_)
MapAll(values) ==
    IF values = <<>> THEN {<<>>}
    ELSE {<<h>> \o t : h \in MapArgValue(Head(values)), t \in MapAll(Tail(values))}

\* map_arguments, as the set of its possible results: the values are mapped
\* in order and collected; reaching the unreachable!() arm panics instead of
\* returning
map_arguments(values) ==
    IF \E i \in 1..Len(values) : \E m \in MapArgValue(values[i]) : m.kind = "Panic"
    THEN {[panic |-> TRUE, values |-> <<>>]}
    ELSE {[panic |-> FALSE, values |-> vs] : vs \in MapAll(values)}

(***************************************************************************)
(* Type descriptors: DataType of SqliteTypeInfo and AnyTypeInfoKind.       *)
(***************************************************************************)
DataTypes ==
    {"Null", "Int", "Float", "Text", "Blob", "Numeric", "Bool", "Int64",
     "Date", "Time", "Datetime"}

NoError == [variant |-> "none", msg |-> <<>>, index |-> "", source |-> <<>>]

\* format!("Any driver does not support the SQLite type {:?}", sqlite_type)
UnsupportedTypeError(t) ==
    [variant |-> "AnyDriverError",
     msg |-> <<"Any driver does not support the SQLite type ", "SqliteTypeInfo", t>>,
     index |-> "", source |-> <<>>]

\* the match with the Int arm yielding the 64-bit kind
TypeKindOfIntAsBigInt(t) ==
    CASE t = "Null"  -> "Null"
      [] t = "Int"   -> "BigInt"
      [] t = "Int64" -> "BigInt"
      [] t = "Float" -> "Double"
      [] t = "Blob"  -> "Blob"
      [] t = "Text"  -> "Text"
      [] OTHER       -> "none"

\* the match of TryFrom<&SqliteTypeInfo>; "none" is the wildcard arm
TypeKindOf(t) ==
    CASE t = "Null"  -> "Null"
      [] t = "Int"   -> "Integer"
      [] t = "Int64" -> "BigInt"
      [] t = "Float" -> "Double"
      [] t = "Blob"  -> "Blob"
      [] t = "Text"  -> "Text"
      [] OTHER       -> "none"

\* AnyTypeInfo::try_from(&SqliteTypeInfo)
AnyTypeInfo_try_from(t) ==
    IF TypeKindOf(t) = "none"
    THEN [ok |-> FALSE, kind |-> "none", err |-> UnsupportedTypeError(t)]
    ELSE [ok |-> TRUE, kind |-> TypeKindOf(t), err |-> NoError]

\* AnyColumn::try_from(&SqliteColumn): a type failure is wrapped in ColumnDecode
AnyColumn_try_from(col) ==
    LET ti == AnyTypeInfo_try_from(col.type_info)
    IN  IF ti.ok
        THEN [ok |-> TRUE,
              col |-> [ordinal |-> col.ordinal, name |-> col.name, kind |-> ti.kind],
              err |-> NoError]
        ELSE [ok |-> FALSE,
              col |-> [ordinal |-> col.ordinal, name |-> col.name, kind |-> "none"],
              err |-> [variant |-> "ColumnDecode", msg |-> <<>>,
                       index |-> col.name, source |-> ti.err.msg]]

(***************************************************************************)
(* Query-completion summaries.                                             *)
(***************************************************************************)
\* SqliteQueryResult::rows_affected
rows_affected(res) == res.changes

\* a summary that carries the backend's insert row-id over
map_resultKeepRowId(res) ==
    [rows_affected |-> rows_affected(res),
     last_insert_id |-> [some |-> TRUE, v |-> res.last_insert_rowid]]

\* map_result: last_insert_id is None whatever the backend reported
map_result(res) ==
    [rows_affected |-> rows_affected(res),
     last_insert_id |-> [some |-> FALSE, v |-> 0]]

(***************************************************************************)
(* Rows and stream items.                                                  *)
(***************************************************************************)
Col(i, n, t) == [ordinal |-> i, name |-> n, type_info |-> t]

SqliteRowOf(id, cols) ==
    [id |-> id, column_names |-> [i \in 1..Len(cols) |-> cols[i].name],
     columns |-> cols]

\* AnyRow::map_from(row, column_names): every column goes through
\* AnyColumn::try_from in ordinal order and the first failure is returned
AnyRow_map_from(row, names) ==
    LET bad == {i \in 1..Len(row.columns) : ~AnyColumn_try_from(row.columns[i]).ok}
    IN  IF bad # {}
        THEN LET i == CHOOSE k \in bad : \A j \in bad : k <= j
             IN  [ok |-> FALSE,
                  row |-> [id |-> row.id, column_names |-> <<>>, columns |-> <<>>],
                  err |-> AnyColumn_try_from(row.columns[i]).err]
        ELSE [ok |-> TRUE,
              row |-> [id |-> row.id, column_names |-> names,
                       columns |-> [i \in 1..Len(row.columns) |->
                                      AnyColumn_try_from(row.columns[i]).col]],
              err |-> NoError]

\* AnyRow::try_from(&SqliteRow)
AnyRow_try_from(row) == AnyRow_map_from(row, row.column_names)

Left(v)  == [tag |-> "Left", v |-> v]
Right(v) == [tag |-> "Right", v |-> v]
Err(e)   == [tag |-> "Err", v |-> e]

BackendError ==
    [variant |-> "Database", msg |-> <<"constraint failed">>, index |-> "", source |-> <<>>]

WorkerCrashed ==
    [variant |-> "WorkerCrashed", msg |-> <<>>, index |-> "", source |-> <<>>]

\* the closure of fetch_many's .map: `res?` passes an error item on, a summary
\* goes through map_result, a row through AnyRow::try_from
MapItem(res) ==
    CASE res.tag = "Err"   -> Err(res.v)
      [] res.tag = "Left"  -> Left(map_result(res.v))
      [] res.tag = "Right" ->
            IF AnyRow_try_from(res.v).ok
            THEN Right(AnyRow_try_from(res.v).row)
            ELSE Err(AnyRow_try_from(res.v).err)

(***************************************************************************)
(* Inputs of the streaming specification.                                  *)
(***************************************************************************)
Summary1 == [changes |-> 1, last_insert_rowid |-> 7]
RowA   == SqliteRowOf(1, <<Col(0, "id", "Int"), Col(1, "name", "Text")>>)
RowB   == SqliteRowOf(2, <<Col(0, "id", "Int64"), Col(1, "name", "Text")>>)
RowBad == SqliteRowOf(3, <<Col(0, "id", "Int"), Col(1, "flag", "Bool")>>)

OkItems == {Left(Summary1), Right(RowA), Right(RowB), Right(RowBad)}

RECURSIVE SeqsUpTo(_, _)
SeqsUpTo(S, n) ==
    IF n = 0 THEN {<<>>}
    ELSE LET shorter == SeqsUpTo(S, n - 1)
         IN  shorter \cup {Append(q, x) : q \in {r \in shorter : Len(r) = n - 1}, x \in S}

\* what one step of the engine can produce: a row, a summary or a backend error
Items == OkItems \cup {Err(BackendError)}

None == [some |-> FALSE, values |-> <<>>]
Some(values) == [some |-> TRUE, values |-> values]

ArgChoices ==
    {None, Some(<<>>),
     Some(<<AnyVal("Integer", <<42>>), AnyVal("Text", <<97>>)>>),
     Some(<<AnyVal("SmallInt", <<-2>>), AnyVal("Future", <<>>)>>)}

(***************************************************************************)
(* State.                                                                  *)
(***************************************************************************)
VARIABLES
    row_channel_size, \* SqliteConnection.row_channel_size
    call,             \* the operation called and its arguments
    locals,           \* persistent and args, computed before the future runs
    callerPc,         \* idle, submitting, streaming, ended, dropped, returned, panicked
    cmd,              \* the Execute command the worker received
    emitted,          \* the items the engine has produced for the statement
    workerPc,         \* idle, running, done, stopped, crashed
    pending,          \* the item the worker holds while it waits to send
    chan,             \* the bounded flume channel
    rxAlive,          \* the receiver (the stream) has not been dropped
    taken,            \* the concrete items the stream received
    delivered,        \* the items fetch_many's stream yielded to the caller
    streamEnd,        \* open, or disconnected once the stream yielded None
    result,           \* what fetch_optional returned
    convOp, convIn, convOut, convDone  \* a conversion applied on its own

vars == <<row_channel_size, call, locals, callerPc, cmd, emitted, workerPc,
          pending, chan, rxAlive, taken, delivered, streamEnd, result,
          convOp, convIn, convOut, convDone>>

convVars == <<convOp, convIn, convOut, convDone>>
workerVars == <<emitted, workerPc, pending>>

NoCmd == [sent |-> FALSE, persistent |-> FALSE, args |-> None, chan_size |-> 0]
NoCall == [op |-> "none", arguments |-> None]
Pending == [tag |-> "Pending", v |-> NoError]

StreamInit ==
    /\ call = NoCall
    /\ locals = [persistent |-> FALSE, args |-> None]
    /\ callerPc = "idle"
    /\ cmd = NoCmd
    /\ emitted = <<>>
    /\ workerPc = "idle"
    /\ pending = <<>>
    /\ chan = <<>>
    /\ rxAlive = FALSE
    /\ taken = <<>>
    /\ delivered = <<>>
    /\ streamEnd = "open"
    /\ result = Pending

Init ==
    /\ row_channel_size \in 1..MaxChan
    /\ StreamInit
    /\ convOp = "none" /\ convIn = 0 /\ convOut = 0 /\ convDone = FALSE

(***************************************************************************)
(* fetch_many and fetch_optional: the part that runs at the call.          *)
(***************************************************************************)
\* a statement taken as persistent only when it binds at least one value
PersistentIfNonEmpty(arguments) == arguments.some /\ Len(arguments.values) > 0

\* let persistent = arguments.is_some();
Persistent(arguments) == arguments.some

\* a channel two items larger than the connection's setting
ChanSizePlusTwo(size) == size + 2

\* the capacity handed to worker.execute: self.row_channel_size
ChanSizeArg(size) == size

\* let args = arguments.map(map_arguments); the set of its possible values
MappedArgs(arguments) ==
    IF arguments.some
    THEN {Some(r.values) : r \in map_arguments(arguments.values)}
    ELSE {None}

ArgsPanic(arguments) ==
    arguments.some /\ \E r \in map_arguments(arguments.values) : r.panic

\* fetch_many up to the point where it returns the stream: persistent and
\* args are computed eagerly, the worker is reached on the first poll
fetch_many(arguments) ==
    /\ callerPc = "idle"
    /\ call' = [op |-> "fetch_many", arguments |-> arguments]
    /\ IF ArgsPanic(arguments)
       THEN /\ callerPc' = "panicked"
            /\ UNCHANGED locals
       ELSE /\ callerPc' = "submitting"
            /\ \E args \in MappedArgs(arguments) :
                  locals' = [persistent |-> Persistent(arguments), args |-> args]
    /\ UNCHANGED <<row_channel_size, cmd, workerVars, chan, rxAlive, taken,
                   delivered, streamEnd, result, convVars>>

\* fetch_optional up to the point where it returns the future
fetch_optional(arguments) ==
    /\ callerPc = "idle"
    /\ call' = [op |-> "fetch_optional", arguments |-> arguments]
    /\ IF ArgsPanic(arguments)
       THEN /\ callerPc' = "panicked"
            /\ UNCHANGED locals
       ELSE /\ callerPc' = "submitting"
            /\ \E args \in MappedArgs(arguments) :
                  locals' = [persistent |-> Persistent(arguments), args |-> args]
    /\ UNCHANGED <<row_channel_size, cmd, workerVars, chan, rxAlive, taken,
                   delivered, streamEnd, result, convVars>>

(***************************************************************************)
(* worker.execute: the command reaches the worker with a fresh bounded     *)
(* channel, or the worker is gone and the call fails with WorkerCrashed.   *)
(***************************************************************************)
execute ==
    /\ callerPc = "submitting"
    /\ workerPc = "idle"
    /\ cmd' = [sent |-> TRUE, persistent |-> locals.persistent,
               args |-> locals.args, chan_size |-> ChanSizeArg(row_channel_size)]
    /\ workerPc' = "running"
    /\ rxAlive' = TRUE
    /\ callerPc' = "streaming"
    /\ UNCHANGED <<row_channel_size, call, locals, emitted, pending, chan,
                   taken, delivered, streamEnd, result, convVars>>

\* try_flatten_stream turns the failed future into a one-error stream;
\* fetch_optional returns the error through `.await?`
execute_fails ==
    /\ callerPc = "submitting"
    /\ workerPc = "crashed"
    /\ IF call.op = "fetch_many"
       THEN /\ delivered' = <<Err(WorkerCrashed)>>
            /\ callerPc' = "ended"
            /\ UNCHANGED result
       ELSE /\ result' = Err(WorkerCrashed)
            /\ callerPc' = "returned"
            /\ UNCHANGED delivered
    /\ UNCHANGED <<row_channel_size, call, locals, cmd, workerVars, chan,
                   rxAlive, taken, streamEnd, convVars>>

(***************************************************************************)
(* The execution worker.                                                   *)
(***************************************************************************)
TxDropped == workerPc \in {"done", "stopped", "crashed"}

\* the worker steps the statement; after an error the statement yields no more
WorkerProduce(item) ==
    /\ workerPc = "running"
    /\ pending = <<>>
    /\ Len(emitted) < MaxPlan
    /\ IF emitted = <<>> THEN TRUE ELSE emitted[Len(emitted)].tag # "Err"
    /\ emitted' = Append(emitted, item)
    /\ pending' = <<item>>
    /\ UNCHANGED <<row_channel_size, call, locals, callerPc, cmd, workerPc,
                   chan, rxAlive, taken, delivered, streamEnd, result, convVars>>

\* the send blocks while the channel holds chan_size items
WorkerSend ==
    /\ workerPc = "running"
    /\ pending # <<>>
    /\ rxAlive
    /\ Len(chan) < cmd.chan_size
    /\ chan' = Append(chan, pending[1])
    /\ pending' = <<>>
    /\ UNCHANGED <<row_channel_size, call, locals, callerPc, cmd, emitted, workerPc,
                   rxAlive, taken, delivered, streamEnd, result, convVars>>

\* the receiver is gone: the send fails and the worker ends the statement
WorkerSendFails ==
    /\ workerPc = "running"
    /\ pending # <<>>
    /\ ~rxAlive
    /\ workerPc' = "stopped"
    /\ pending' = <<>>
    /\ UNCHANGED <<row_channel_size, call, locals, callerPc, cmd, emitted,
                   chan, rxAlive, taken, delivered, streamEnd, result, convVars>>

\* the engine is exhausted: the worker drops the sender
WorkerFinish ==
    /\ workerPc = "running"
    /\ pending = <<>>
    /\ workerPc' = "done"
    /\ UNCHANGED <<row_channel_size, call, locals, callerPc, cmd, emitted,
                   pending, chan, rxAlive, taken, delivered, streamEnd, result,
                   convVars>>

\* the worker thread dies; its sender is dropped with it
WorkerCrash ==
    /\ workerPc \in {"idle", "running"}
    /\ callerPc \in {"submitting", "streaming"}
    /\ workerPc' = "crashed"
    /\ pending' = <<>>
    /\ UNCHANGED <<row_channel_size, call, locals, callerPc, cmd, emitted,
                   chan, rxAlive, taken, delivered, streamEnd, result, convVars>>

(***************************************************************************)
(* The consumer side.                                                      *)
(***************************************************************************)
\* a receiver that hands out the newest item of the channel
RecvItemNewest(c) == c[Len(c)]

\* flume::Receiver::into_stream: the stream yields the oldest item first
RecvItem(c) == Head(c)

\* one poll of fetch_many's stream that is ready: an item through the .map
\* closure, or None once the channel is empty and disconnected
poll_next ==
    /\ callerPc = "streaming"
    /\ call.op = "fetch_many"
    /\ IF chan # <<>>
       THEN /\ taken' = Append(taken, RecvItem(chan))
            /\ delivered' = Append(delivered, MapItem(RecvItem(chan)))
            /\ chan' = Tail(chan)
            /\ UNCHANGED <<callerPc, streamEnd, rxAlive>>
       ELSE /\ TxDropped
            /\ streamEnd' = "disconnected"
            /\ callerPc' = "ended"
            /\ rxAlive' = FALSE
            /\ UNCHANGED <<taken, delivered, chan>>
    /\ UNCHANGED <<row_channel_size, call, locals, cmd, workerVars, result,
                   convVars>>

\* the caller abandons the stream before its end
drop_stream ==
    /\ callerPc = "streaming"
    /\ call.op = "fetch_many"
    /\ rxAlive' = FALSE
    /\ chan' = <<>>
    /\ callerPc' = "dropped"
    /\ UNCHANGED <<row_channel_size, call, locals, cmd, workerVars, taken,
                   delivered, streamEnd, result, convVars>>

\* what fetch_optional returns for the outcome of its one try_next
OptionalResult(first) ==
    CASE first.tag = "Err"   -> Err(first.v)
      [] first.tag = "Right" ->
            IF AnyRow_try_from(first.v).ok
            THEN [tag |-> "Some", v |-> AnyRow_try_from(first.v).row]
            ELSE Err(AnyRow_try_from(first.v).err)
      [] OTHER               -> [tag |-> "None", v |-> NoError]

EndOfStream == [tag |-> "End", v |-> NoError]

\* the body of fetch_optional after execute: one try_next, then return; the
\* stream is dropped on return
try_next ==
    /\ callerPc = "streaming"
    /\ call.op = "fetch_optional"
    /\ IF chan # <<>>
       THEN /\ taken' = Append(taken, RecvItem(chan))
            /\ result' = OptionalResult(RecvItem(chan))
            /\ UNCHANGED streamEnd
       ELSE /\ TxDropped
            /\ result' = OptionalResult(EndOfStream)
            /\ streamEnd' = "disconnected"
            /\ UNCHANGED taken
    /\ chan' = <<>>
    /\ rxAlive' = FALSE
    /\ callerPc' = "returned"
    /\ UNCHANGED <<row_channel_size, call, locals, cmd, workerVars,
                   delivered, convVars>>

Next ==
    \/ \E a \in ArgChoices : fetch_many(a)
    \/ \E a \in ArgChoices : fetch_optional(a)
    \/ execute
    \/ execute_fails
    \/ \E item \in Items : WorkerProduce(item)
    \/ WorkerSend
    \/ WorkerSendFails
    \/ WorkerFinish
    \/ WorkerCrash
    \/ poll_next
    \/ drop_stream
    \/ try_next

Spec == Init /\ [][Next]_vars

(***************************************************************************)
(* The conversions on their own: an input is drawn, the conversion is      *)
(* applied to it.                                                          *)
(***************************************************************************)
F32(sg, e, f) == <<sg, e, f>>

F32Samples ==
    {F32(0, 127, 0),          \* 1.0
     F32(1, 128, 2097152),    \* -2.5
     F32(0, 0, 0),            \* 0.0
     F32(1, 0, 0),            \* -0.0
     F32(0, 0, 1),            \* smallest subnormal
     F32(0, 0, 3145728),      \* a subnormal with two bits set
     F32(0, 254, 8388607),    \* f32::MAX
     F32(1, 255, 0),          \* -inf
     F32(0, 255, 4194304),    \* quiet NaN
     F32(0, 255, 1),          \* signalling NaN
     F32(1, 255, 2097152)}    \* signalling NaN, negative

ArgValues ==
    {AnyVal("Null", <<>>)}
    \cup {AnyVal("SmallInt", <<v>>) : v \in {-32768, -1, 0, 32767}}
    \cup {AnyVal("Integer", <<v>>) : v \in {-2147483647 - 1, 42, 2147483647}}
    \cup {AnyVal("BigInt", v) : v \in {<<0, 0, 0, 42>>, <<0, 1, 0, 0>>,
                                       <<32767, 65535, 65535, 65535>>,
                                       <<65535, 65535, 65535, 65535>>}}
    \cup {AnyVal("Real", v) : v \in F32Samples}
    \cup {AnyVal("Double", <<0, 1023, 0, 1>>)}
    \cup {AnyVal("Text", <<97>>), AnyVal("Text", <<>>)}
    \cup {AnyVal("Blob", <<0, 255>>)}
    \cup {AnyVal("Future", <<>>)}

ArgLists == SeqsUpTo(ArgValues, MaxArgs)

Summaries ==
    [changes : {0, 1, 2147483647}, last_insert_rowid : {-1, 0, 7}]

InitConv ==
    /\ row_channel_size = 1
    /\ StreamInit
    /\ convDone = FALSE
    /\ convOut = 0
    /\ \/ convOp = "map_arguments" /\ convIn \in ArgLists
       \/ convOp = "type_info" /\ convIn \in DataTypes
       \/ convOp = "map_result" /\ convIn \in Summaries

streamVars == <<row_channel_size, call, locals, callerPc, cmd, emitted, workerPc,
                pending, chan, rxAlive, taken, delivered, streamEnd, result>>

Apply_map_arguments ==
    /\ convOp = "map_arguments" /\ ~convDone
    /\ convOut' \in map_arguments(convIn)
    /\ convDone' = TRUE
    /\ UNCHANGED <<streamVars, convOp, convIn>>

Apply_type_info ==
    /\ convOp = "type_info" /\ ~convDone
    /\ convOut' = AnyTypeInfo_try_from(convIn)
    /\ convDone' = TRUE
    /\ UNCHANGED <<streamVars, convOp, convIn>>

Apply_map_result ==
    /\ convOp = "map_result" /\ ~convDone
    /\ convOut' = map_result(convIn)
    /\ convDone' = TRUE
    /\ UNCHANGED <<streamVars, convOp, convIn>>

NextConv == Apply_map_arguments \/ Apply_type_info \/ Apply_map_result

SpecConv == InitConv /\ [][NextConv]_vars

(***************************************************************************)
(* Properties.                                                             *)
(***************************************************************************)
SupportedTypes == {"Null", "Int", "Int64", "Float", "Blob", "Text"}

Projectable(row) ==
    \A i \in 1..Len(row.columns) : row.columns[i].type_info \in SupportedTypes

HasRow(p) == \E i \in 1..Len(p) : p[i].tag = "Right"

FirstRow(p) ==
    p[CHOOSE i \in 1..Len(p) :
        p[i].tag = "Right" /\ \A j \in 1..(i - 1) : p[j].tag # "Right"].v

ErrorFree(p) == \A i \in 1..Len(p) : p[i].tag # "Err"

\* C1: for an item sequence the worker emits without an error, fetch_optional
\* returns the first row item of the sequence, projected, whenever the
\* sequence holds a row item, and None exactly when it holds none; summaries
\* never decide the outcome.
C1_FetchOptionalFirstRow ==
    (/\ call.op = "fetch_optional"
     /\ callerPc = "returned"
     /\ cmd.sent
     /\ workerPc # "crashed"
     /\ ErrorFree(emitted))
    => IF HasRow(emitted)
       THEN Projectable(FirstRow(emitted)) =>
              /\ result.tag = "Some"
              /\ result.v.id = FirstRow(emitted).id
       ELSE result.tag = "None"

\* what the caller must receive at the position of a concrete item
Corresponds(c, d) ==
    CASE c.tag = "Left" ->
            /\ d.tag = "Left"
            /\ d.v.rows_affected = c.v.changes
      [] c.tag = "Right" /\ Projectable(c.v) ->
            /\ d.tag = "Right"
            /\ d.v.id = c.v.id
            /\ d.v.column_names = c.v.column_names
      [] c.tag = "Right" /\ ~Projectable(c.v) ->
            /\ d.tag = "Err"
            /\ d.v.variant = "ColumnDecode"
      [] c.tag = "Err" -> d = c

\* the same, with every concrete row required to arrive as a row
CorrespondsAsRow(c, d) ==
    CASE c.tag = "Left" ->
            /\ d.tag = "Left"
            /\ d.v.rows_affected = c.v.changes
      [] c.tag = "Right" ->
            /\ d.tag = "Right"
            /\ d.v.id = c.v.id
      [] c.tag = "Err" -> d = c

\* C2 (as amended): fetch_many delivers the worker's items one-to-one and in
\* emission order: the i-th delivered item is the i-th emitted one, a summary
\* as a summary, a row whose projection succeeds as that row, a row whose
\* projection fails as a ColumnDecode error at the same position; when the
\* worker completes and the stream ends nothing has been dropped.
C2_InOrderOneToOne ==
    (call.op = "fetch_many" /\ cmd.sent) =>
        /\ Len(delivered) <= Len(emitted)
        /\ \A i \in 1..Len(delivered) : Corresponds(emitted[i], delivered[i])
        /\ (callerPc = "ended" /\ workerPc = "done") => Len(delivered) = Len(emitted)

\* C2 (as stated): every concrete row arrives as a row (Right) item at its
\* position.
C2_EveryRowArrivesAsRow ==
    (call.op = "fetch_many" /\ cmd.sent) =>
        /\ Len(delivered) <= Len(emitted)
        /\ \A i \in 1..Len(delivered) : CorrespondsAsRow(emitted[i], delivered[i])
        /\ (callerPc = "ended" /\ workerPc = "done") => Len(delivered) = Len(emitted)

\* a batch of one summary and then a two-row set was delivered to its end
C2_Witness ==
    /\ call.op = "fetch_many"
    /\ callerPc = "ended"
    /\ workerPc = "done"
    /\ emitted = <<Left(Summary1), Right(RowA), Right(RowB)>>
    /\ Len(delivered) = 3
    /\ delivered[1].tag = "Left"
    /\ delivered[3].v.id = 2

\* C3: a failure in the middle of a fetch_many execution ends the item
\* sequence: an error item is the last item the caller receives.
C3_ErrorIsLastItem ==
    call.op = "fetch_many" =>
        \A i \in 1..Len(delivered) : delivered[i].tag = "Err" => i = Len(delivered)

\* C4: when the channel breaks because the worker crashed before it completed
\* the statement, the caller gets an error, never a clean end of the sequence
\* (fetch_many) or None (fetch_optional).
C4_BreakSurfacesError ==
    (streamEnd = "disconnected" /\ workerPc = "crashed") =>
        /\ call.op = "fetch_many" =>
              /\ delivered # <<>>
              /\ delivered[Len(delivered)] = Err(WorkerCrashed)
        /\ call.op = "fetch_optional" => result.tag = "Err"

HasUnmappedKind(arguments) ==
    /\ arguments.some
    /\ \E i \in 1..Len(arguments.values) : arguments.values[i].kind \notin SupportedKinds

\* C5: mapping the arguments never aborts: an erased value of a kind without
\* a mapping makes the call yield a catchable UnsupportedArgumentKind error.
C5_UnmappedKindIsCatchable ==
    (call.op # "none" /\ HasUnmappedKind(call.arguments)) =>
        /\ callerPc # "panicked"
        /\ callerPc \in {"ended", "returned"} =>
              \/ result = Err([NoError EXCEPT !.variant = "UnsupportedArgumentKind"])
              \/ delivered = <<Err([NoError EXCEPT !.variant = "UnsupportedArgumentKind"])>>

\* C6: for both operations the statement reaches the worker as persistent if
\* and only if an argument list is present (an empty one included); with
\* arguments the mapped arguments are passed, without them none are.
C6_PersistentIffArguments ==
    cmd.sent =>
        /\ cmd.persistent <=> call.arguments.some
        /\ cmd.args.some <=> call.arguments.some
        /\ Len(cmd.args.values) = Len(call.arguments.values)
        /\ \A i \in 1..Len(cmd.args.values) :
              cmd.args.values[i] \in MapArgValue(call.arguments.values[i])

\* an empty argument list was submitted
C6_Witness ==
    /\ cmd.sent
    /\ call.arguments = Some(<<>>)
    /\ cmd.persistent
    /\ call.op = "fetch_optional"

\* the logical value of an f32 and of an f64: class, sign, unbiased exponent
\* and the 52 fraction bits of the normalised significand; every NaN is the
\* one value "not a number", whatever its sign and payload
Value32(x) ==
    IF x[2] = 255
    THEN IF x[3] = 0 THEN [class |-> "inf", s |-> x[1], exp |-> 0, hi |-> 0, lo |-> 0]
                     ELSE [class |-> "nan", s |-> 0, exp |-> 0, hi |-> 0, lo |-> 0]
    ELSE IF x[2] = 0 /\ x[3] = 0
    THEN [class |-> "zero", s |-> x[1], exp |-> 0, hi |-> 0, lo |-> 0]
    ELSE IF x[2] = 0
    THEN LET k == Msb(x[3])
         IN  [class |-> "num", s |-> x[1], exp |-> k - 149,
              hi |-> (x[3] - 2^k) * 2^(23 - k), lo |-> 0]
    ELSE [class |-> "num", s |-> x[1], exp |-> x[2] - 127, hi |-> x[3], lo |-> 0]

Value64(y) ==
    IF y[2] = 2047
    THEN IF y[3] = 0 /\ y[4] = 0
         THEN [class |-> "inf", s |-> y[1], exp |-> 0, hi |-> 0, lo |-> 0]
         ELSE [class |-> "nan", s |-> 0, exp |-> 0, hi |-> 0, lo |-> 0]
    ELSE IF y[2] = 0 /\ y[3] = 0 /\ y[4] = 0
    THEN [class |-> "zero", s |-> y[1], exp |-> 0, hi |-> 0, lo |-> 0]
    ELSE IF y[2] = 0
    THEN [class |-> "subnormal64", s |-> y[1], exp |-> 0, hi |-> y[3], lo |-> y[4]]
    ELSE [class |-> "num", s |-> y[1], exp |-> y[2] - 1023, hi |-> y[3], lo |-> y[4]]

PreservesValue(in, out) ==
    CASE in.kind = "Null"     -> out.kind = "Null"
      [] in.kind = "SmallInt" -> out.kind = "Int" /\ out.v = in.v
      [] in.kind = "Integer"  -> out.kind = "Int" /\ out.v = in.v
      [] in.kind = "BigInt"   -> out.kind = "Int64" /\ out.v = in.v
      [] in.kind = "Real"     -> out.kind = "Double" /\ Value64(out.v) = Value32(in.v)
      [] in.kind = "Double"   -> out.kind = "Double" /\ out.v = in.v
      [] in.kind = "Text"     -> out.kind = "Text" /\ out.v = in.v
      [] in.kind = "Blob"     -> out.kind = "Blob" /\ out.v = in.v

AllSupported(values) ==
    \A i \in 1..Len(values) : values[i].kind \in SupportedKinds

\* C7: for every sequence of erased values of supported kinds map_arguments
\* succeeds and returns a list of the same length whose i-th element is the
\* mapping of the i-th input with its logical value preserved (a NaN stays a
\* NaN; its sign and payload are not part of the value).
C7_ArgumentsPreserved ==
    (convOp = "map_arguments" /\ convDone /\ AllSupported(convIn)) =>
        /\ ~convOut.panic
        /\ Len(convOut.values) = Len(convIn)
        /\ \A i \in 1..Len(convIn) : PreservesValue(convIn[i], convOut.values[i])

\* a negative SmallInt and a Real were mapped
C7_Witness ==
    /\ convOp = "map_arguments"
    /\ convDone
    /\ convIn = <<AnyVal("SmallInt", <<-1>>), AnyVal("Real", F32(1, 128, 2097152))>>
    /\ convOut.values[1].v = <<-1>>

ExpectedKind ==
    [Null |-> "Null", Int |-> "Integer", Int64 |-> "BigInt", Float |-> "Double",
     Blob |-> "Blob", Text |-> "Text"]

\* C8: the conversion of a type descriptor yields exactly one kind or an
\* error: Null, Int, Int64, Float, Blob and Text yield Null, Integer, BigInt,
\* Double, Blob and Text; every other type yields an unsupported-type error
\* carrying the type's debug description.
C8_TypeKindTable ==
    (convOp = "type_info" /\ convDone) =>
        IF convIn \in SupportedTypes
        THEN /\ convOut.ok
             /\ convOut.kind = ExpectedKind[convIn]
             /\ convOut.err = NoError
        ELSE /\ ~convOut.ok
             /\ convOut.kind = "none"
             /\ convOut.err.variant = "AnyDriverError"
             /\ convOut.err.msg[Len(convOut.err.msg)] = convIn

\* the 32-bit integer type and an unsupported type were converted
C8_Witness ==
    /\ convOp = "type_info"
    /\ convDone
    /\ \/ convIn = "Int" /\ convOut.kind = "Integer"
       \/ convIn = "Bool" /\ ~convOut.ok

\* C9: with a row channel of capacity K the channel never holds more than K
\* items, and the items the worker has produced and the caller has not yet
\* received are at most K plus the one item the worker is blocked on.
C9_BoundedLookahead ==
    cmd.sent =>
        /\ Len(chan) <= row_channel_size
        /\ Len(emitted) - Len(taken) <= row_channel_size + 1
        /\ (rxAlive /\ workerPc = "running") =>
              Len(emitted) - Len(taken) = Len(chan) + Len(pending)

\* the channel is full and the worker holds one more item
C9_Witness ==
    /\ workerPc = "running"
    /\ rxAlive
    /\ Len(chan) = row_channel_size
    /\ pending # <<>>
    /\ Len(emitted) - Len(taken) = row_channel_size + 1

\* C10: the conversion of a summary keeps rows_affected and sets
\* last_insert_id to None, whatever insert row-id the backend reported.
C10_SummaryDropsInsertId ==
    (convOp = "map_result" /\ convDone) =>
        /\ convOut.rows_affected = convIn.changes
        /\ ~convOut.last_insert_id.some

\* a summary with a non-zero insert row-id was converted
C10_Witness ==
    /\ convOp = "map_result"
    /\ convDone
    /\ convIn.last_insert_rowid = 7
    /\ convIn.changes = 1
    /\ convOut.rows_affected = 1

====
